---- MODULE Spec2Model ----
(***************************************************************************)
(* Model of core/bin/zksync_forced_exit_requests/src/forced_exit_sender.rs *)
(* (ForcedExitSender): decoding of the request id from a payment amount,   *)
(* validation, building and sending of the ForcedExit batch, confirmation  *)
(* polling, reconciliation of unconfirmed requests and the retry loop.     *)
(***************************************************************************)
EXTENDS Integers, Sequences, FiniteSets, TLC

(***************************************************************************)
(* Option<T>: None is the empty sequence, Some(x) the one-element sequence *)
(***************************************************************************)
None == <<>>
Some(x) == <<x>>

(***************************************************************************)
(* BigUint (num::BigUint): big-endian sequences of decimal digits without  *)
(* leading zeros; zero is the empty sequence.                              *)
(***************************************************************************)
RECURSIVE BigNorm(_)
BigNorm(s) ==
    IF s = <<>> THEN <<>>
    ELSE IF Head(s) = 0 THEN BigNorm(Tail(s)) ELSE s

RECURSIVE LexLess(_, _)
LexLess(a, b) ==
    IF a = <<>> THEN FALSE
    ELSE IF Head(a) # Head(b) THEN Head(a) < Head(b)
    ELSE LexLess(Tail(a), Tail(b))

BigLess(a, b) ==
    IF Len(a) # Len(b) THEN Len(a) < Len(b) ELSE LexLess(a, b)

BigPad(s, n) ==
    [i \in 1..n |-> IF i <= n - Len(s) THEN 0 ELSE s[i - (n - Len(s))]]

RECURSIVE SubDigits(_, _, _)
SubDigits(a, b, borrow) ==
    IF a = <<>> THEN <<>>
    ELSE LET n == Len(a)
             d == a[n] - b[n] - borrow
         IN  Append(SubDigits(SubSeq(a, 1, n - 1), SubSeq(b, 1, n - 1),
                              IF d < 0 THEN 1 ELSE 0),
                    IF d < 0 THEN d + 10 ELSE d)

\* a - b for a >= b
BigSub(a, b) == BigNorm(SubDigits(a, BigPad(b, Len(a)), 0))

RECURSIVE AddDigits(_, _, _)
AddDigits(a, b, carry) ==
    IF a = <<>> THEN (IF carry = 0 THEN <<>> ELSE <<carry>>)
    ELSE LET n == Len(a)
             d == a[n] + b[n] + carry
         IN  Append(AddDigits(SubSeq(a, 1, n - 1), SubSeq(b, 1, n - 1), d \div 10),
                    d % 10)

BigAdd(a, b) ==
    LET n == IF Len(a) > Len(b) THEN Len(a) ELSE Len(b)
    IN  BigNorm(AddDigits(BigPad(a, n), BigPad(b, n), 0))

RECURSIVE BigReduce(_, _)
BigReduce(r, m) == IF BigLess(r, m) THEN r ELSE BigReduce(BigSub(r, m), m)

\* a mod m for m > 0 (amount.modpow(&one, &m)): long division, digit by digit
RECURSIVE BigMod(_, _)
BigMod(a, m) ==
    IF a = <<>> THEN <<>>
    ELSE LET n == Len(a)
         IN  BigReduce(BigNorm(Append(BigMod(SubSeq(a, 1, n - 1), m), a[n])), m)

\* 10^d
BigPow10(d) == <<1>> \o [i \in 1..d |-> 0]

\* i64::MAX = 2^63 - 1 and 2^64
I64Max == <<9,2,2,3,3,7,2,0,3,6,8,5,4,7,7,5,8,0,7>>
Two64  == <<1,8,4,4,6,7,4,4,0,7,3,7,0,9,5,5,1,6,1,6>>

(***************************************************************************)
(* Results of calls: tag "Ok", "Err" (anyhow error) or "Panic".            *)
(***************************************************************************)
Panic == [tag |-> "Panic"]

(***************************************************************************)
(* extract_id_from_amount.  overflow_checks is the build's setting of      *)
(* integer overflow checks: TRUE panics on overflow of 10_i64.pow, FALSE   *)
(* wraps it modulo 2^64.                                                   *)
(***************************************************************************)
id_space_size(digits, overflow_checks) ==
    LET p        == BigPow10(digits)
        overflow == BigLess(I64Max, p)
    IN  IF overflow /\ overflow_checks THEN Panic
        ELSE LET w == IF overflow THEN BigMod(p, Two64) ELSE p
             IN  IF BigLess(I64Max, w)
                 THEN Panic            \* negative i64: BigUint::from_i64 is None
                 ELSE [tag |-> "Ok", val |-> w]

extract_id_from_amount(amount, digits, overflow_checks) ==
    LET size == id_space_size(digits, overflow_checks)
    IN  IF size.tag = "Panic" THEN Panic
        ELSE IF size.val = <<>> THEN Panic      \* modpow with a zero modulus
        ELSE LET id == BigMod(amount, size.val)
             IN  [tag |-> "Ok", id |-> id, amount |-> BigSub(amount, id)]

(***************************************************************************)
(* check_request                                                           *)
(***************************************************************************)
\* check_request accepting a submission at the very expiry of the request
check_request_at_expiry(amount, submission_time, request) ==
    IF request = None THEN FALSE
    ELSE LET r == request[1]
         IN  IF r.fulfilled_at # None THEN FALSE
             ELSE r.valid_until >= submission_time /\ r.price_in_wei = amount

check_request(amount, submission_time, request) ==
    IF request = None THEN FALSE
    ELSE LET r == request[1]
         IN  IF r.fulfilled_at # None THEN FALSE
             ELSE r.valid_until > submission_time /\ r.price_in_wei = amount

(***************************************************************************)
(* Stored requests (forced_exit_requests table).  The fields this code     *)
(* never writes are fixed; db holds fulfilled_by and fulfilled_at.         *)
(***************************************************************************)
RequestIds == {1, 2, 3}
ValidUntil == 2
ForcedExitRequests ==
    [id \in RequestIds |->
        [id           |-> id,
         target       |-> id,
         tokens       |-> CASE id = 1 -> <<1, 2>>
                           [] id = 2 -> <<3>>
                           [] OTHER  -> <<>>,
         price_in_wei |-> <<5, 0>>,
         valid_until  |-> ValidUntil]]

\* config.forced_exit_requests.digits_in_id
DigitsInId == 1

\* self.forced_exit_sender_account_id
SenderAccountId == 7

RECURSIVE BigFromInt(_)
BigFromInt(n) == IF n = 0 THEN <<>> ELSE Append(BigFromInt(n \div 10), n % 10)

\* The row of request id in store d, as a ForcedExitRequest
Row(d, id) ==
    [id           |-> id,
     target       |-> ForcedExitRequests[id].target,
     tokens       |-> ForcedExitRequests[id].tokens,
     price_in_wei |-> ForcedExitRequests[id].price_in_wei,
     valid_until  |-> ForcedExitRequests[id].valid_until,
     fulfilled_by |-> d[id].fulfilled_by,
     fulfilled_at |-> d[id].fulfilled_at]

\* get_request_by_id: id is the i64 decoded from the amount
get_request_by_id(d, id) ==
    IF \E r \in RequestIds : BigFromInt(r) = id
    THEN Some(Row(d, CHOOSE r \in RequestIds : BigFromInt(r) = id))
    ELSE None

\* get_unconfirmed_requests: fulfilled_by set, fulfilled_at unset, by id
RECURSIVE RowsFrom(_, _)
RowsFrom(d, id) ==
    IF id \notin RequestIds THEN <<>>
    ELSE (IF d[id].fulfilled_by # None /\ d[id].fulfilled_at = None
          THEN <<Row(d, id)>> ELSE <<>>) \o RowsFrom(d, id + 1)

get_unconfirmed_requests(d) == RowsFrom(d, 1)

set_fulfilled_by(d, id, value) == [d EXCEPT ![id].fulfilled_by = value]

set_fulfilled_at(d, id, now) == [d EXCEPT ![id].fulfilled_at = Some(now)]

(***************************************************************************)
(* build_forced_exit, build_transactions.  sender_state is the result of   *)
(* last_committed_state_for_account: an error, or Ok of an optional state. *)
(***************************************************************************)
build_forced_exit(nonce, target, token) ==
    [tx |-> [account_id |-> SenderAccountId,
             target     |-> target,
             token      |-> token,
             amount     |-> <<>>,
             nonce      |-> nonce,
             time_range |-> "default"],
     eth_sign_data |-> None]

\* the loop of build_transactions without sender_nonce.add_assign(1)
BuildLoopSameNonce(tokens, target, sender_nonce) ==
    [i \in 1..Len(tokens) |-> build_forced_exit(sender_nonce, target, tokens[i])]

RECURSIVE BuildLoop(_, _, _)
BuildLoop(tokens, target, sender_nonce) ==
    IF tokens = <<>> THEN <<>>
    ELSE <<build_forced_exit(sender_nonce, target, Head(tokens))>>
         \o BuildLoop(Tail(tokens), target, sender_nonce + 1)

build_transactions(sender_state, fe_request) ==
    IF sender_state.tag = "Err" THEN [tag |-> "Err"]
    ELSE IF sender_state.val = None THEN Panic
    ELSE [tag |-> "Ok",
          val |-> BuildLoop(fe_request.tokens, fe_request.target,
                            sender_state.val[1].nonce)]

\* tx.hash(): determined by the signed content of the transaction
TxHash(stx) == <<stx.tx.target, stx.tx.token, stx.tx.nonce>>

Hashes(txs) == [i \in 1..Len(txs) |-> TxHash(txs[i])]

(***************************************************************************)
(* wait_until_comitted: one iteration of its loop.  receipt is the result  *)
(* of get_receipt: "error", "none", "success" or "failure".                *)
(***************************************************************************)
timeout_millis == 120000
poll_interval_millis == 200

WaitResult(tag, err, time_passed) ==
    [tag |-> tag, err |-> err, time_passed |-> time_passed]

\* the loop body with the timeout compared by > instead of >=
wait_iteration_late(time_passed, receipt) ==
    IF time_passed > timeout_millis
    THEN WaitResult("Panic", "Comitting ForcedExit transaction failed!", time_passed)
    ELSE IF receipt = "error" THEN WaitResult("Err", "get_receipt", time_passed)
    ELSE IF receipt = "success" THEN WaitResult("Ok", "", time_passed)
    ELSE IF receipt = "failure"
    THEN WaitResult("Err", "ForcedExit transaction failed", time_passed)
    ELSE WaitResult("Continue", "", time_passed + poll_interval_millis)

wait_iteration(time_passed, receipt) ==
    IF time_passed >= timeout_millis
    THEN WaitResult("Panic", "Comitting ForcedExit transaction failed!", time_passed)
    ELSE IF receipt = "error" THEN WaitResult("Err", "get_receipt", time_passed)
    ELSE IF receipt = "success" THEN WaitResult("Ok", "", time_passed)
    ELSE IF receipt = "failure"
    THEN WaitResult("Err", "ForcedExit transaction failed", time_passed)
    ELSE WaitResult("Continue", "", time_passed + poll_interval_millis)

(***************************************************************************)
(* process_request: the attempt counter (u8).  With overflow checks the    *)
(* increment of 255 panics, without them it wraps to 0.                    *)
(***************************************************************************)
PROCESSING_ATTEMPTS == 3
U8Max == 255

\* the condition of the escalation log
escalation_logged(attempts) == attempts >= PROCESSING_ATTEMPTS

increment_attempts(attempts, checks) ==
    IF attempts = U8Max
    THEN (IF checks THEN Panic ELSE [tag |-> "Ok", val |-> 0])
    ELSE [tag |-> "Ok", val |-> attempts + 1]

(***************************************************************************)
(* State                                                                   *)
(***************************************************************************)
VARIABLES
    db,               \* request id -> [fulfilled_by, fulfilled_at]
    sender_nonce,     \* nonce of the sender's last committed state
    receipts,         \* tx hash -> "success" | "failure", for the hashes that have one
    pc,               \* caller -> position in process_request
    args,             \* caller -> (amount, submission_time) of its process_request
    attempts,         \* caller -> the attempts counter of process_request
    loc,              \* caller -> locals of try_process_request
    recon,            \* await_unconfirmed: position and locals
    at_writes,        \* request id -> number of executed set_fulfilled_at writes
    fn,               \* a call of a function of the module and its result
    w                 \* a run of wait_until_comitted

vars == <<db, sender_nonce, receipts, pc, args, attempts, loc,
          recon, at_writes, fn, w>>

sysvars == <<db, sender_nonce, receipts, pc, args, attempts, loc,
             recon, at_writes>>

Callers == {1, 2}

\* (amount, submission_time) of a trigger: the price of request 1, 2 or 3 plus
\* its id in time, a wrong price, the price of request 1 at its expiry, the
\* price plus an id that no request has
Event(amount, submission_time) ==
    [amount |-> amount, submission_time |-> submission_time]
ForRequest1 == Event(<<5, 1>>, ValidUntil - 1)
ForRequest2 == Event(<<5, 2>>, ValidUntil - 1)
ForRequest3 == Event(<<5, 3>>, ValidUntil - 1)
Absent      == Event(<<5, 9>>, ValidUntil - 1)
WrongPrice  == Event(<<7, 1>>, ValidUntil - 1)
Expired     == Event(<<5, 1>>, ValidUntil)

\* values of Utc::now()
MaxNow == 1
Nows == 1..MaxNow

MaxNonce == 1

NoArgs == [amount |-> <<>>, submission_time |-> 0]
NoLoc == [id |-> 0, txs |-> <<>>, hashes |-> <<>>]
ReconIdle == [pc |-> "idle", list |-> <<>>, hashes |-> <<>>, result |-> "none"]
NoFn == [call |-> [op |-> "none"], done |-> TRUE, ret |-> FALSE]
NoW == [pc |-> "none"]

SysInit ==
    /\ db = [id \in RequestIds |-> [fulfilled_by |-> None, fulfilled_at |-> None]]
    /\ sender_nonce = 0
    /\ receipts = {}
    /\ pc = [p \in Callers |-> "idle"]
    /\ args = [p \in Callers |-> NoArgs]
    /\ attempts = [p \in Callers |-> 0]
    /\ loc = [p \in Callers |-> NoLoc]
    /\ recon = ReconIdle
    /\ at_writes = [id \in RequestIds |-> 0]

HasReceipt(h) == \E r \in receipts : r[1] = h
ReceiptOf(h) == (CHOOSE r \in receipts : r[1] = h)[2]

\* what get_receipt can return for hash h
LookupResults(h) ==
    IF HasReceipt(h) THEN {"error", ReceiptOf(h)}
    ELSE {"error", "none", "success", "failure"}

\* the receipts after a lookup of h returned r
Observed(h, r) ==
    IF r \in {"success", "failure"} THEN receipts \cup {<<h, r>>} ELSE receipts

\* The iteration of wait_until_comitted(h) that leaves the loop: the first
\* one (time_passed = 0) when the lookup returns a receipt or an error; the
\* one at the timeout when every lookup before it returned no receipt.
WaitExits(h) ==
    {[res |-> wait_iteration(0, r), receipt |-> r] :
        r \in LookupResults(h) \ {"none"}}
    \cup (IF HasReceipt(h) THEN {}
          ELSE {[res |-> wait_iteration(timeout_millis, "none"), receipt |-> "none"]})

(***************************************************************************)
(* process_request / try_process_request, one action per await point       *)
(***************************************************************************)
CallersIdle == \A p \in Callers : pc[p] \in {"idle", "panicked"}

\* process_request(amount, submission_time) is invoked
Trigger(p, events) ==
    /\ pc[p] = "idle"
    /\ recon.pc = "idle"
    /\ \E e \in events : args' = [args EXCEPT ![p] = e]
    /\ attempts' = [attempts EXCEPT ![p] = 0]
    /\ pc' = [pc EXCEPT ![p] = "try"]
    /\ UNCHANGED <<db, sender_nonce, receipts, loc, recon,
                   at_writes, fn, w>>

\* try_process_request returned Ok: process_request returns
ReturnOk(p) ==
    /\ pc' = [pc EXCEPT ![p] = "idle"]
    /\ loc' = [loc EXCEPT ![p] = NoLoc]
    /\ args' = [args EXCEPT ![p] = NoArgs]
    /\ attempts' = [attempts EXCEPT ![p] = 0]

\* try_process_request returned an error
ReturnErr(p) ==
    /\ pc' = [pc EXCEPT ![p] = "failed"]
    /\ loc' = [loc EXCEPT ![p] = NoLoc]
    /\ UNCHANGED <<args, attempts>>

Panicked(p) ==
    /\ pc' = [pc EXCEPT ![p] = "panicked"]
    /\ loc' = [loc EXCEPT ![p] = NoLoc]
    /\ UNCHANGED <<args, attempts>>

\* try_process_request going on with every request that exists, whatever
\* check_request would say
BeginUnchecked(p) ==
    /\ pc[p] = "try"
    /\ \E overflow_checks \in BOOLEAN, storage_ok \in BOOLEAN :
       LET dec == extract_id_from_amount(args[p].amount, DigitsInId, overflow_checks)
       IN  IF dec.tag = "Panic" THEN Panicked(p)
           ELSE
                  IF ~storage_ok THEN ReturnErr(p)
                  ELSE LET fe_request == get_request_by_id(db, dec.id)
                       IN  IF fe_request # None
                           THEN /\ pc' = [pc EXCEPT ![p] = "build"]
                                /\ loc' = [loc EXCEPT ![p] =
                                              [id |-> fe_request[1].id, txs |-> <<>>,
                                               hashes |-> <<>>]]
                                /\ UNCHANGED <<args, attempts>>
                           ELSE ReturnOk(p)
    /\ UNCHANGED <<db, sender_nonce, receipts, recon, at_writes, fn, w>>

\* extract_id_from_amount, access_storage, get_request_by_id, check_request
Begin(p) ==
    /\ pc[p] = "try"
    /\ \E overflow_checks \in BOOLEAN, storage_ok \in BOOLEAN :
       LET dec == extract_id_from_amount(args[p].amount, DigitsInId, overflow_checks)
       IN  IF dec.tag = "Panic" THEN Panicked(p)
           ELSE
                  IF ~storage_ok THEN ReturnErr(p)
                  ELSE LET fe_request == get_request_by_id(db, dec.id)
                       IN  IF check_request(dec.amount, args[p].submission_time, fe_request)
                           THEN /\ pc' = [pc EXCEPT ![p] = "build"]
                                /\ loc' = [loc EXCEPT ![p] =
                                              [id |-> fe_request[1].id, txs |-> <<>>,
                                               hashes |-> <<>>]]
                                /\ UNCHANGED <<args, attempts>>
                           ELSE ReturnOk(p)
    /\ UNCHANGED <<db, sender_nonce, receipts, recon, at_writes, fn, w>>

\* build_transactions
Build(p) ==
    /\ pc[p] = "build"
    /\ \E sender_state \in {[tag |-> "Err", val |-> None],
                            [tag |-> "Ok", val |-> Some([nonce |-> sender_nonce])]} :
          LET res == build_transactions(sender_state, ForcedExitRequests[loc[p].id])
          IN  IF res.tag = "Err" THEN ReturnErr(p)
              ELSE IF res.tag = "Panic" THEN Panicked(p)
              ELSE /\ pc' = [pc EXCEPT ![p] = "send"]
                   /\ loc' = [loc EXCEPT ![p].txs = res.val]
                   /\ UNCHANGED <<args, attempts>>
    /\ UNCHANGED <<db, sender_nonce, receipts, recon, at_writes, fn, w>>

\* send_transactions persisting fulfilled_by before the result of the send is known
SendAfterPersist(p) ==
    /\ pc[p] = "send"
    /\ db' = set_fulfilled_by(db, loc[p].id, Some(Hashes(loc[p].txs)))
    /\ \E sent \in {"ok", "transport_error", "rejected"} :
          IF sent = "ok"
          THEN /\ pc' = [pc EXCEPT ![p] = "persist"]
               /\ loc' = [loc EXCEPT ![p].hashes = Hashes(loc[p].txs)]
               /\ UNCHANGED <<args, attempts>>
          ELSE ReturnErr(p)
    /\ UNCHANGED <<sender_nonce, receipts, recon, at_writes, fn, w>>

\* send_transactions up to and including send_txs_batch(txs, vec![]).await??
Send(p) ==
    /\ pc[p] = "send"
    /\ \E sent \in {"ok", "transport_error", "rejected"} :
          IF sent = "ok"
          THEN /\ pc' = [pc EXCEPT ![p] = "persist"]
               /\ loc' = [loc EXCEPT ![p].hashes = Hashes(loc[p].txs)]
               /\ UNCHANGED <<args, attempts>>
          ELSE ReturnErr(p)
    /\ UNCHANGED <<db, sender_nonce, receipts, recon, at_writes, fn, w>>

\* send_transactions: set_fulfilled_by(request.id, Some(hashes)), return hashes
Persist(p) ==
    /\ pc[p] = "persist"
    /\ \E storage_ok \in BOOLEAN :
          IF storage_ok
          THEN /\ db' = set_fulfilled_by(db, loc[p].id, Some(loc[p].hashes))
               /\ pc' = [pc EXCEPT ![p] = "wait"]
               /\ UNCHANGED <<args, attempts, loc>>
          ELSE /\ ReturnErr(p)
               /\ UNCHANGED db
    /\ UNCHANGED <<sender_nonce, receipts, recon, at_writes, fn, w>>

\* try_process_request waiting for the last hash of the batch
WaitLastHash(p) ==
    /\ pc[p] = "wait"
    /\ IF loc[p].hashes = <<>>
       THEN /\ Panicked(p)
            /\ UNCHANGED receipts
       ELSE LET last == loc[p].hashes[Len(loc[p].hashes)]
            IN  \E x \in WaitExits(last) :
                  /\ receipts' = Observed(last, x.receipt)
                  /\ IF x.res.tag = "Ok"
                     THEN /\ pc' = [pc EXCEPT ![p] = "set_at"]
                          /\ UNCHANGED <<args, attempts, loc>>
                     ELSE IF x.res.tag = "Err" THEN ReturnErr(p)
                     ELSE Panicked(p)
    /\ UNCHANGED <<db, sender_nonce, recon, at_writes, fn, w>>

\* wait_until_comitted(hashes[0])
Wait(p) ==
    /\ pc[p] = "wait"
    /\ IF loc[p].hashes = <<>>
       THEN /\ Panicked(p)                \* hashes[0]: index out of bounds
            /\ UNCHANGED receipts
       ELSE \E x \in WaitExits(loc[p].hashes[1]) :
              /\ receipts' = Observed(loc[p].hashes[1], x.receipt)
              /\ IF x.res.tag = "Ok"
                 THEN /\ pc' = [pc EXCEPT ![p] = "set_at"]
                      /\ UNCHANGED <<args, attempts, loc>>
                 ELSE IF x.res.tag = "Err" THEN ReturnErr(p)
                 ELSE Panicked(p)
    /\ UNCHANGED <<db, sender_nonce, recon, at_writes, fn, w>>

\* set_fulfilled_at(id), then Ok(())
SetAt(p) ==
    /\ pc[p] = "set_at"
    /\ \E storage_ok \in BOOLEAN, now \in Nows :
          IF storage_ok
          THEN /\ db' = set_fulfilled_at(db, loc[p].id, now)
               /\ at_writes' = [at_writes EXCEPT ![loc[p].id] = @ + 1]
               /\ ReturnOk(p)
          ELSE /\ ReturnErr(p)
               /\ UNCHANGED <<db, at_writes>>
    /\ UNCHANGED <<sender_nonce, receipts, recon, fn, w>>

\* process_request after a failed attempt: attempts += 1, log, loop
Retry(p) ==
    /\ pc[p] = "failed"
    /\ \E overflow_checks \in BOOLEAN :
       LET inc == increment_attempts(attempts[p], overflow_checks)
       IN  IF inc.tag = "Panic"
           THEN /\ pc' = [pc EXCEPT ![p] = "panicked"]
                /\ UNCHANGED attempts
           ELSE /\ attempts' = [attempts EXCEPT ![p] = inc.val]
                /\ pc' = [pc EXCEPT ![p] = "try"]
    /\ UNCHANGED <<db, sender_nonce, receipts, args, loc, recon,
                   at_writes, fn, w>>

(***************************************************************************)
(* await_unconfirmed (&mut self: never runs beside a process_request of    *)
(* the same sender), one action per await point                            *)
(***************************************************************************)
\* the position after the requests before the head of list are done
RECURSIVE ReconAt(_)
ReconAt(list) ==
    IF list = <<>> THEN [ReconIdle EXCEPT !.result = "Ok"]
    ELSE LET hashes == Head(list).fulfilled_by
         IN  IF hashes = None \/ hashes[1] = <<>>
             THEN ReconAt(Tail(list))          \* await_unconfirmed_request: Ok(())
             ELSE [pc |-> "wait", list |-> list, hashes |-> hashes[1],
                   result |-> "none"]

\* access_storage, get_unconfirmed_requests
ReconStart ==
    /\ recon.pc = "idle"
    /\ CallersIdle
    /\ \E storage_ok \in BOOLEAN :
          recon' = IF storage_ok THEN ReconAt(get_unconfirmed_requests(db))
                   ELSE [ReconIdle EXCEPT !.result = "Err"]
    /\ UNCHANGED <<db, sender_nonce, receipts, pc, args, attempts,
                   loc, at_writes, fn, w>>

\* await_unconfirmed_request: wait_until_comitted(hash)
ReconWait ==
    /\ recon.pc = "wait"
    /\ \E x \in WaitExits(Head(recon.hashes)) :
          /\ receipts' = Observed(Head(recon.hashes), x.receipt)
          /\ recon' = [recon EXCEPT !.pc = IF x.res.tag = "Ok" THEN "set_at"
                                           ELSE IF x.res.tag = "Err" THEN "cancel"
                                           ELSE "panicked"]
    /\ UNCHANGED <<db, sender_nonce, pc, args, attempts, loc,
                   at_writes, fn, w>>

\* await_unconfirmed returning the error of set_fulfilled_at without cancelling
ReconSetAtPropagates ==
    /\ recon.pc = "set_at"
    /\ \E storage_ok \in BOOLEAN, now \in Nows :
          IF storage_ok
          THEN /\ db' = set_fulfilled_at(db, Head(recon.list).id, now)
               /\ at_writes' = [at_writes EXCEPT ![Head(recon.list).id] = @ + 1]
               /\ recon' = IF Tail(recon.hashes) = <<>>
                           THEN ReconAt(Tail(recon.list))
                           ELSE [recon EXCEPT !.pc = "wait",
                                              !.hashes = Tail(recon.hashes)]
          ELSE /\ recon' = [ReconIdle EXCEPT !.result = "Err"]
               /\ UNCHANGED <<db, at_writes>>
    /\ UNCHANGED <<sender_nonce, receipts, pc, args, attempts, loc,
                   fn, w>>

\* await_unconfirmed_request: set_fulfilled_at(request.id), next hash
ReconSetAt ==
    /\ recon.pc = "set_at"
    /\ \E storage_ok \in BOOLEAN, now \in Nows :
          IF storage_ok
          THEN /\ db' = set_fulfilled_at(db, Head(recon.list).id, now)
               /\ at_writes' = [at_writes EXCEPT ![Head(recon.list).id] = @ + 1]
               /\ recon' = IF Tail(recon.hashes) = <<>>
                           THEN ReconAt(Tail(recon.list))
                           ELSE [recon EXCEPT !.pc = "wait",
                                              !.hashes = Tail(recon.hashes)]
          ELSE /\ recon' = [recon EXCEPT !.pc = "cancel"]
               /\ UNCHANGED <<db, at_writes>>
    /\ UNCHANGED <<sender_nonce, receipts, pc, args, attempts, loc,
                   fn, w>>

\* await_unconfirmed going on after a failed await without set_fulfilled_by
ReconCancelKeeps ==
    /\ recon.pc = "cancel"
    /\ recon' = ReconAt(Tail(recon.list))
    /\ UNCHANGED <<db, sender_nonce, receipts, pc, args, attempts, loc,
                   at_writes, fn, w>>

\* await_unconfirmed: set_fulfilled_by(request.id, None) after a failed await
ReconCancel ==
    /\ recon.pc = "cancel"
    /\ \E storage_ok \in BOOLEAN :
          IF storage_ok
          THEN /\ db' = set_fulfilled_by(db, Head(recon.list).id, None)
               /\ recon' = ReconAt(Tail(recon.list))
          ELSE /\ recon' = [ReconIdle EXCEPT !.result = "Err"]
               /\ UNCHANGED db
    /\ UNCHANGED <<sender_nonce, receipts, pc, args, attempts, loc,
                   at_writes, fn, w>>

\* the sender's committed nonce advances
EnvNonce ==
    /\ sender_nonce < MaxNonce
    /\ sender_nonce' = sender_nonce + 1
    /\ UNCHANGED <<db, receipts, pc, args, attempts, loc, recon,
                   at_writes, fn, w>>

(***************************************************************************)
(* Spec: concurrent process_request invocations for request 1, then        *)
(* reconciliation.  The retries of one invocation are bounded.             *)
(***************************************************************************)
MaxAttempts == 1

RetryBounded(p) == attempts[p] < MaxAttempts /\ Retry(p)

Init == SysInit /\ fn = NoFn /\ w = NoW

Next ==
    \/ \E p \in Callers :
          \/ Trigger(p, {ForRequest1, WrongPrice})
          \/ Begin(p)
          \/ Build(p)
          \/ Send(p)
          \/ Persist(p)
          \/ Wait(p)
          \/ SetAt(p)
          \/ RetryBounded(p)
    \/ ReconStart
    \/ ReconWait
    \/ ReconSetAt
    \/ ReconCancel

Spec == Init /\ [][Next]_vars

(***************************************************************************)
(* SpecSeq: one caller at a time (caller 1), reconciliation between its    *)
(* invocations, the sender's nonce advancing.                              *)
(***************************************************************************)
NextSeq ==
    \/ Trigger(1, {ForRequest1, ForRequest2, ForRequest3, WrongPrice, Expired,
                   Absent})
    \/ Begin(1)
    \/ Build(1)
    \/ Send(1)
    \/ Persist(1)
    \/ Wait(1)
    \/ SetAt(1)
    \/ RetryBounded(1)
    \/ ReconStart
    \/ ReconWait
    \/ ReconSetAt
    \/ ReconCancel
    \/ EnvNonce

SpecSeq == Init /\ [][NextSeq]_vars

(***************************************************************************)
(* SpecRecon: two process_request invocations, one for request 1 and one   *)
(* for request 2, and reconciliation of what they leave unconfirmed.       *)
(***************************************************************************)
NextRecon ==
    \/ \E p \in Callers :
          \/ Trigger(p, {IF p = 1 THEN ForRequest1 ELSE ForRequest2})
          \/ Begin(p)
          \/ Build(p)
          \/ Send(p)
          \/ Persist(p)
          \/ Wait(p)
          \/ SetAt(p)
          \/ RetryBounded(p)
    \/ ReconStart
    \/ ReconWait
    \/ ReconSetAt
    \/ ReconCancel

SpecRecon == Init /\ [][NextRecon]_vars

(***************************************************************************)
(* SpecRetry: one process_request with the whole range of its counter.     *)
(***************************************************************************)
NextRetry ==
    \/ Trigger(1, {ForRequest1})
    \/ Begin(1)
    \/ Build(1)
    \/ Send(1)
    \/ Persist(1)
    \/ Wait(1)
    \/ SetAt(1)
    \/ Retry(1)

SpecRetry == Init /\ [][NextRetry]_vars

(***************************************************************************)
(* SpecFn: calls of extract_id_from_amount, check_request and              *)
(* build_transactions on inputs drawn from bounded sets.                   *)
(***************************************************************************)
MaxAmountLen == 2
MaxDigits == 20
MaxTime == 3
MaxTokens == 2
MaxSenderNonce == 2

RECURSIVE SeqsUpTo(_, _)
SeqsUpTo(S, n) ==
    IF n = 0 THEN {<<>>}
    ELSE LET shorter == SeqsUpTo(S, n - 1)
         IN  shorter \cup {Append(q, x) : q \in shorter, x \in S}

\* amounts: every number of up to MaxAmountLen digits, and numbers around the
\* i64 range
Amounts ==
    {BigNorm(q) : q \in SeqsUpTo(0..9, MaxAmountLen)}
    \cup {<<5,0,0,1,2,3>>,
          I64Max,
          <<7,7,6,6,2,7,9,6,3,1,4,5,2,2,4,1,9,2,5>>,
          <<1,0,0,0,0,0,0,0,0,0,0,0,0,0,0,0,0,0,0,7>>}

ExtractCalls ==
    [op : {"extract_id_from_amount"}, amount : Amounts, digits : 0..MaxDigits,
     overflow_checks : BOOLEAN]

Prices == {<<5, 0>>, <<7, 0>>}

RequestValues ==
    [id : {1}, target : {1}, tokens : {<<1>>}, price_in_wei : Prices,
     valid_until : 0..MaxTime, fulfilled_by : {None, Some(<<<<1, 1, 0>>>>)},
     fulfilled_at : {None, Some(1)}]

CheckCalls ==
    [op : {"check_request"}, amount : Prices \cup {<<>>},
     submission_time : 0..MaxTime,
     request : {None} \cup {Some(r) : r \in RequestValues}]

SenderStates ==
    {[tag |-> "Err", val |-> None], [tag |-> "Ok", val |-> None]}
    \cup {[tag |-> "Ok", val |-> Some([nonce |-> n])] : n \in 0..MaxSenderNonce}

BuildCalls ==
    [op : {"build_transactions"}, sender_state : SenderStates,
     tokens : SeqsUpTo({1, 2, 3}, MaxTokens), target : {1, 2}]

FnCall(call) == [call |-> call, done |-> FALSE, ret |-> FALSE]

InitFn ==
    /\ SysInit
    /\ w = NoW
    /\ \E call \in ExtractCalls \cup CheckCalls \cup BuildCalls : fn = FnCall(call)

Returns(ret) ==
    /\ fn' = [fn EXCEPT !.done = TRUE, !.ret = ret]
    /\ UNCHANGED <<sysvars, w>>

CallExtract ==
    /\ ~fn.done
    /\ fn.call.op = "extract_id_from_amount"
    /\ Returns(extract_id_from_amount(fn.call.amount, fn.call.digits,
                                      fn.call.overflow_checks))

CallCheck ==
    /\ ~fn.done
    /\ fn.call.op = "check_request"
    /\ Returns(check_request(fn.call.amount, fn.call.submission_time,
                             fn.call.request))

CallBuild ==
    /\ ~fn.done
    /\ fn.call.op = "build_transactions"
    /\ Returns(build_transactions(
                  fn.call.sender_state,
                  [id |-> 1, target |-> fn.call.target, tokens |-> fn.call.tokens,
                   price_in_wei |-> <<5, 0>>, valid_until |-> ValidUntil,
                   fulfilled_by |-> None, fulfilled_at |-> None]))

NextFn == CallExtract \/ CallCheck \/ CallBuild

SpecFn == InitFn /\ [][NextFn]_vars

(***************************************************************************)
(* SpecNew: ForcedExitSender::new on every configuration in the bounds,    *)
(* then extract_id_from_amount called on the engine it returned.           *)
(***************************************************************************)
\* get_forced_exit_sender_account_id: access_storage, account_id_by_address
get_forced_exit_sender_account_id(storage_ok, account_id) ==
    IF ~storage_ok THEN [tag |-> "Err"]
    ELSE IF account_id.tag = "Err" THEN [tag |-> "Err"]
    ELSE IF account_id.val = None THEN [tag |-> "Err"]
    ELSE [tag |-> "Ok", val |-> account_id.val[1]]

\* ForcedExitSender::new: the expects panic, the config is stored as given
new(config, storage_ok, account_id, key_ok) ==
    LET id == get_forced_exit_sender_account_id(storage_ok, account_id)
    IN  IF id.tag = "Err" THEN Panic          \* "Failed to get the sender id"
        ELSE IF ~key_ok THEN Panic            \* decoding or reading the private key
        ELSE [tag |-> "Ok",
              config |-> config,
              forced_exit_sender_account_id |-> id.val]

NewCalls ==
    [op : {"new"}, config : [digits_in_id : 0..MaxDigits], storage_ok : BOOLEAN,
     account_id : {[tag |-> "Err", val |-> None], [tag |-> "Ok", val |-> None],
                   [tag |-> "Ok", val |-> Some(SenderAccountId)]},
     key_ok : BOOLEAN]

InitNew ==
    /\ SysInit
    /\ w = NoW
    /\ \E call \in NewCalls : fn = FnCall(call)

CallNew ==
    /\ ~fn.done
    /\ fn.call.op = "new"
    /\ Returns(new(fn.call.config, fn.call.storage_ok, fn.call.account_id,
                   fn.call.key_ok))

\* the constructed engine is asked to decode an amount
EngineExtract ==
    /\ fn.done
    /\ fn.call.op = "new"
    /\ fn.ret.tag = "Ok"
    /\ \E amount \in Amounts, overflow_checks \in BOOLEAN :
          fn' = FnCall([op |-> "extract_id_from_amount", amount |-> amount,
                        digits |-> fn.ret.config.digits_in_id,
                        overflow_checks |-> overflow_checks])
    /\ UNCHANGED <<sysvars, w>>

NextNew == CallNew \/ EngineExtract \/ CallExtract

SpecNew == InitNew /\ [][NextNew]_vars

(***************************************************************************)
(* SpecWait: one run of wait_until_comitted, iteration by iteration, with  *)
(* every sequence of results of get_receipt.                               *)
(***************************************************************************)
InitWait ==
    /\ SysInit
    /\ fn = NoFn
    /\ w = [pc |-> "loop", time_passed |-> 0, lookups |-> 0, last |-> "none",
            result |-> WaitResult("Continue", "", 0)]

WaitStep ==
    /\ w.pc = "loop"
    /\ \E receipt \in {"error", "none", "success", "failure"} :
          LET it == wait_iteration(w.time_passed, receipt)
          IN  w' = IF it.tag = "Continue"
                   THEN [w EXCEPT !.time_passed = it.time_passed,
                                  !.lookups = @ + 1, !.last = receipt]
                   ELSE IF it.tag = "Panic"
                   THEN [w EXCEPT !.pc = "panicked", !.result = it]
                   ELSE [w EXCEPT !.pc = "returned", !.result = it,
                                  !.lookups = @ + 1, !.last = receipt]
    /\ UNCHANGED <<sysvars, fn>>

NextWait == WaitStep

SpecWait == InitWait /\ [][NextWait]_vars

(***************************************************************************)
(* Properties                                                              *)
(***************************************************************************)

\* C1: send_txs_batch is never invoked by a caller for a request whose
\* persisted fulfilled_at is set at the moment of the send.
C1_NoSendOnceFulfilled ==
    [][\A p \in Callers :
         (pc[p] = "send" /\ pc'[p] # "send") => db[loc[p].id].fulfilled_at = None]_vars

\* C2: reconciliation writes fulfilled_at of a request only when every hash
\* of its fulfilled_by has a receipt reporting success, and a request whose
\* hash has a receipt reporting failure is cancelled with fulfilled_at unset.
C2_ReconWritesAfterAllConfirmed ==
    [][/\ (recon.pc = "set_at" /\ at_writes' # at_writes) =>
             LET hashes == Head(recon.list).fulfilled_by[1]
             IN  \A i \in 1..Len(hashes) : <<hashes[i], "success">> \in receipts
       /\ (recon.pc = "cancel" /\ <<Head(recon.hashes), "failure">> \in receipts) =>
             db[Head(recon.list).id].fulfilled_at = None]_vars

\* C3: set_fulfilled_at is executed at most once for every request.
C3_FulfilledAtWrittenOnce == \A id \in RequestIds : at_writes[id] <= 1

\* C4: when send_transactions returns Ok the persisted fulfilled_by of the
\* request is the returned hashes, one per transaction in batch order; when
\* it returns an error nothing was persisted, and nothing is persisted before
\* the send succeeded.
C4_PersistOnlyAfterSend ==
    [][\A p \in Callers :
         /\ (pc[p] = "persist" /\ pc'[p] = "wait") =>
               /\ db'[loc[p].id].fulfilled_by = Some(loc'[p].hashes)
               /\ Len(loc'[p].hashes) = Len(loc[p].txs)
               /\ \A i \in 1..Len(loc[p].txs) :
                     loc'[p].hashes[i] = TxHash(loc[p].txs[i])
         /\ (pc[p] \in {"send", "persist"} /\ pc'[p] = "failed") => db' = db
         /\ (pc[p] = "send" /\ pc'[p] # "send") => db' = db]_vars

\* a caller is past a successful send_transactions of a batch of two
C4_Witness ==
    \E p \in Callers :
       /\ pc[p] = "wait"
       /\ Len(loc[p].hashes) = 2
       /\ db[loc[p].id].fulfilled_by = Some(loc[p].hashes)

\* C5: check_request is true exactly when the request is present, not
\* fulfilled, submitted strictly before valid_until, and the amount is its price.
C5_CheckRequestIff ==
    (fn.done /\ fn.call.op = "check_request") =>
        LET c == fn.call
        IN  fn.ret = (/\ c.request # None
                      /\ c.request[1].fulfilled_at = None
                      /\ c.submission_time < c.request[1].valid_until
                      /\ c.amount = c.request[1].price_in_wei)

\* check_request returned false for a live request of the right price submitted
\* at valid_until
C5_Witness ==
    /\ fn.done
    /\ fn.call.op = "check_request"
    /\ fn.call.request # None
    /\ fn.call.request[1].fulfilled_at = None
    /\ fn.call.amount = fn.call.request[1].price_in_wei
    /\ fn.call.submission_time = fn.call.request[1].valid_until
    /\ fn.ret = FALSE

\* the low d decimal digits of a: a mod 10^d
LowDigits(a, d) ==
    BigNorm(SubSeq(a, IF Len(a) > d THEN Len(a) - d + 1 ELSE 1, Len(a)))

\* C6: for every amount and digit count d, extract_id_from_amount returns
\* (id, rem) with id < 10^d, id = amount mod 10^d and rem + id = amount.
C6_DecodeContract ==
    (fn.done /\ fn.call.op = "extract_id_from_amount") =>
        /\ fn.ret.tag = "Ok"
        /\ Len(fn.ret.id) <= fn.call.digits
        /\ fn.ret.id = LowDigits(fn.call.amount, fn.call.digits)
        /\ BigAdd(fn.ret.amount, fn.ret.id) = fn.call.amount

\* C7: build_transactions on k tokens and sender nonce n returns k
\* transactions, the i-th with nonce n+i, the i-th token, the request's target
\* and amount zero.
C7_BuildTransactions ==
    (/\ fn.done
     /\ fn.call.op = "build_transactions"
     /\ fn.call.sender_state.tag = "Ok"
     /\ fn.call.sender_state.val # None) =>
        LET n == fn.call.sender_state.val[1].nonce
            k == Len(fn.call.tokens)
        IN  /\ fn.ret.tag = "Ok"
            /\ Len(fn.ret.val) = k
            /\ \A i \in 1..k :
                  /\ fn.ret.val[i].tx.nonce = n + (i - 1)
                  /\ fn.ret.val[i].tx.token = fn.call.tokens[i]
                  /\ fn.ret.val[i].tx.target = fn.call.target
                  /\ fn.ret.val[i].tx.amount = <<>>

\* build_transactions returned for two different tokens and a nonce above 0
C7_Witness ==
    /\ fn.done
    /\ fn.call.op = "build_transactions"
    /\ fn.call.sender_state.tag = "Ok"
    /\ fn.call.sender_state.val # None
    /\ fn.call.sender_state.val[1].nonce > 0
    /\ Len(fn.call.tokens) = 2
    /\ fn.call.tokens[1] # fn.call.tokens[2]
    /\ fn.ret.tag = "Ok"

\* C8 as stated: wait_until_comitted always returns to its caller; when no
\* receipt has appeared it returns a timeout error.
C8_TimeoutReturned ==
    (w.pc \in {"returned", "panicked"} /\ w.last = "none") =>
        (w.pc = "returned" /\ w.result.tag = "Err")

\* C8 amended: wait_until_comitted ends within 600 lookups: with Ok at the
\* first receipt reporting success, with the transaction-failed error at the
\* first receipt reporting failure, with the lookup's error at the first failed
\* lookup, and with a panic, not a returned error, once 600 lookups found no
\* receipt.
C8_WaitEnds ==
    (w.pc # "none") =>
        /\ w.lookups <= 600
        /\ w.time_passed <= timeout_millis
        /\ (w.pc = "loop") => (w.last = "none")
        /\ (w.pc = "returned") =>
              \/ w.last = "success" /\ w.result.tag = "Ok"
              \/ /\ w.last = "failure"
                 /\ w.result.tag = "Err"
                 /\ w.result.err = "ForcedExit transaction failed"
              \/ /\ w.last = "error"
                 /\ w.result.tag = "Err"
                 /\ w.result.err = "get_receipt"
        /\ (w.pc = "panicked") =>
              (w.lookups = 600 /\ w.last = "none" /\ w.result.tag = "Panic")
        /\ (w.pc = "loop" /\ w.lookups = 600) => w.time_passed >= timeout_millis

\* wait_until_comitted panicked after 600 lookups without a receipt
C8_Witness == w.pc = "panicked" /\ w.lookups = 600

\* C9: every attempt of caller 1 that returned an error is followed by a new
\* attempt.
C9_AlwaysRetries == [][pc[1] = "failed" => pc'[1] = "try"]_vars

\* C10: the attempts counter never decreases and its increment never
\* overflows: at 255 it stays 255 and the loop goes on.
C10_CounterSaturates ==
    [][(pc[1] = "failed" /\ pc'[1] # "failed") =>
          /\ attempts'[1] >= attempts[1]
          /\ (attempts[1] = U8Max) => (attempts'[1] = U8Max /\ pc'[1] = "try")]_vars

\* reconciliation is about to cancel a request with a single hash whose
\* receipt reports failure
C11_Case ==
    /\ recon.pc = "cancel"
    /\ Len(Head(recon.list).fulfilled_by[1]) = 1
    /\ <<Head(recon.hashes), "failure">> \in receipts

\* list is what remains of the requests after the head of recon.list, from
\* some request on
RemainingList(list) ==
    \E k \in 1..Len(recon.list) - 1 : list = SubSeq(recon.list, k + 1, Len(recon.list))

\* C11 as stated: reconciliation of a request with fulfilled_by = Some([h])
\* whose receipt for h reports failure always leaves fulfilled_by = None and
\* fulfilled_at = None, and await_unconfirmed goes on without returning an error.
C11_FailedRequestCleared ==
    [][C11_Case =>
          LET id == Head(recon.list).id
          IN  /\ db'[id].fulfilled_by = None
              /\ db'[id].fulfilled_at = None
              /\ recon'.result # "Err"]_vars

\* C11 amended: when the set_fulfilled_by(id, None) write succeeds the request
\* ends with fulfilled_by = None and fulfilled_at = None and await_unconfirmed
\* goes on to the remaining requests (Ok when none remains); when that write
\* fails await_unconfirmed returns its error at once and the store is unchanged.
C11_FailedRequestClearedIfWritten ==
    [][C11_Case =>
          LET id == Head(recon.list).id
          IN  \/ /\ db' = set_fulfilled_by(db, id, None)
                 /\ db'[id].fulfilled_by = None
                 /\ db'[id].fulfilled_at = None
                 /\ \/ recon'.pc = "idle" /\ recon'.result = "Ok"
                    \/ recon'.pc = "wait" /\ RemainingList(recon'.list)
              \/ /\ db' = db
                 /\ recon'.pc = "idle"
                 /\ recon'.result = "Err"]_vars

\* reconciliation cancelled request 2 (one hash, receipt reporting failure)
\* and returned Ok
C11_Witness ==
    /\ recon.pc = "idle"
    /\ recon.result = "Ok"
    /\ db[2].fulfilled_by = None
    /\ db[2].fulfilled_at = None
    /\ \E r \in receipts : r[1][1] = 2 /\ r[2] = "failure"

\* C12: a confirmation that times out during await_unconfirmed never halts
\* reconciliation: the wait for a hash ends with the write of fulfilled_at or
\* with the cancellation of the request, which goes on to the next request.
C12_ReconNeverHalts ==
    [][recon.pc = "wait" => recon'.pc \in {"set_at", "cancel"}]_vars

\* C13: when process_request starts a new attempt after a failed one, no
\* request is left with fulfilled_by set and fulfilled_at unset: what the
\* failed attempt persisted has been cleared.
C13_ClearedOnRetry ==
    [][(pc[1] = "failed" /\ pc'[1] = "try") =>
          \A id \in RequestIds :
             ~(db'[id].fulfilled_by # None /\ db'[id].fulfilled_at = None)]_vars

\* the (id, amount) decoded from the amount of caller p's process_request
Decoded(p) == extract_id_from_amount(args[p].amount, DigitsInId, TRUE)

\* check_request is false for what caller p's process_request decodes
ValidationMiss(p) ==
    ~check_request(Decoded(p).amount, args[p].submission_time,
                   get_request_by_id(db, Decoded(p).id))

ExceedsIdRange(digits) == BigLess(I64Max, BigPow10(digits))

\* C15: ForcedExitSender::new rejects a configuration whose 10^digits exceeds
\* the i64 range of request ids, so extract_id_from_amount never runs with
\* such a digit count and always returns.
C15_DigitsRejectedAtStartup ==
    /\ (fn.done /\ fn.call.op = "new" /\ ExceedsIdRange(fn.call.config.digits_in_id))
          => fn.ret.tag = "Panic"
    /\ fn.call.op = "extract_id_from_amount" => ~ExceedsIdRange(fn.call.digits)
    /\ (fn.done /\ fn.call.op = "extract_id_from_amount") => fn.ret.tag = "Ok"

\* C16: a retry after an attempt whose batch was persisted and whose first
\* hash has a receipt reporting failure submits a batch built with a fresh
\* nonce: its hashes are not the hashes of the failed batch.
C16_RetryUsesFreshNonce ==
    [][(/\ pc[1] = "send"
        /\ pc'[1] = "persist"
        /\ attempts[1] > 0
        /\ db[loc[1].id].fulfilled_by # None
        /\ db[loc[1].id].fulfilled_by[1] # <<>>
        /\ <<db[loc[1].id].fulfilled_by[1][1], "failure">> \in receipts) =>
          Hashes(loc[1].txs) # db[loc[1].id].fulfilled_by[1]]_vars

\* C17: an attempt is past each step of try_process_request only after the
\* steps before it: the request passed check_request, then the batch was
\* sent, then fulfilled_by was persisted with its hashes, then the receipt of
\* the first hash reported success, and only then fulfilled_at is written; the
\* wait consults no receipt but that of the first hash.
C17_AttemptOrder ==
    [][LET id     == loc[1].id
           hashes == loc[1].hashes
       IN  /\ pc[1] \in {"build", "send", "persist", "wait", "set_at"} =>
                 /\ ~ValidationMiss(1)
                 /\ get_request_by_id(db, Decoded(1).id)[1].id = id
           /\ pc[1] \in {"persist", "wait", "set_at"} =>
                 hashes = Hashes(loc[1].txs)
           /\ pc[1] \in {"wait", "set_at"} =>
                 db[id].fulfilled_by = Some(hashes)
           /\ pc[1] = "set_at" =>
                 (hashes # <<>> /\ <<hashes[1], "success">> \in receipts)
           /\ \A r \in RequestIds :
                 (pc[1] \notin {"idle", "panicked"}
                    /\ db'[r].fulfilled_at # db[r].fulfilled_at) =>
                       (pc[1] = "set_at" /\ r = id)
           /\ pc[1] = "wait" =>
                 \A r \in receipts' \ receipts : r[1] = hashes[1]]_vars

\* process_request wrote fulfilled_at of request 1 (a batch of two) and no
\* receipt of the second hash was ever looked up
C17_Witness ==
    /\ recon = ReconIdle
    /\ pc[1] = "idle"
    /\ at_writes[1] = 1
    /\ db[1].fulfilled_at # None
    /\ Len(db[1].fulfilled_by[1]) = 2
    /\ \A r \in receipts : r[1] # db[1].fulfilled_by[1][2]

\* during reconciliation every way out of the wait for a hash but a receipt
\* reporting success (or the panic of the timeout), and a failed
\* set_fulfilled_at write, lead to the cancellation of the request
C18_ErrorsLeadToCancel ==
    /\ recon.pc = "wait" =>
          /\ recon'.pc \in {"set_at", "cancel", "panicked"}
          /\ recon'.pc = "set_at" => <<Head(recon.hashes), "success">> \in receipts'
          /\ recon'.pc = "panicked" =>
                \A r \in receipts' : r[1] # Head(recon.hashes)
    /\ (recon.pc = "set_at" /\ at_writes' = at_writes) => recon'.pc = "cancel"
    /\ recon'.pc = "cancel" =>
          (recon'.list = recon.list /\ recon'.hashes = recon.hashes)

\* C18 as stated: any error returned while a request is awaited during
\* reconciliation (receipt reporting failure, error of the receipt lookup,
\* error of the set_fulfilled_at write) clears its fulfilled_by to None.
C18_AnyErrorClears ==
    [][/\ C18_ErrorsLeadToCancel
       /\ recon.pc = "cancel" => db'[Head(recon.list).id].fulfilled_by = None]_vars

\* C18 amended: any such error makes await_unconfirmed call
\* set_fulfilled_by(request.id, None); fulfilled_by is None when that write
\* succeeds, and when it fails await_unconfirmed returns its error and the
\* store keeps fulfilled_by.
C18_AnyErrorCancels ==
    [][/\ C18_ErrorsLeadToCancel
       /\ recon.pc = "cancel" =>
             \/ db' = set_fulfilled_by(db, Head(recon.list).id, None)
             \/ /\ db' = db
                /\ recon' = [ReconIdle EXCEPT !.result = "Err"]]_vars

\* reconciliation cancelled request 2 although the receipt of its only hash
\* reports success: the lookup or the set_fulfilled_at write had failed
C18_Witness ==
    /\ recon.pc = "idle"
    /\ db[2].fulfilled_by = None
    /\ db[2].fulfilled_at = None
    /\ \E r \in receipts : r[1][1] = 2 /\ r[2] = "success"

\* C19: process_request never sends a batch for a request whose persisted
\* fulfilled_by is set: a submission pending confirmation is not repeated.
C19_NoSendWhilePending ==
    [][(pc[1] = "send" /\ pc'[1] = "persist") =>
          db[loc[1].id].fulfilled_by = None]_vars

\* C20: try_process_request reaches the confirmation step with at least one
\* hash, so hashes[0] exists: no attempt aborts there after an empty batch
\* was sent and fulfilled_by = Some([]) persisted.
C20_FirstHashExists ==
    pc[1] = "wait" => (loc[1].hashes # <<>> /\ db[loc[1].id].fulfilled_by # Some(<<>>))

====
